---- MODULE Spec2Model ----
(***************************************************************************)
(* Route optimizer of snailtrail (server/lib/optimizer.ts): the travel     *)
(* matrix builder with its batched provider calls, the feasibility and     *)
(* scoring functions, and the greedy route constructor optimizeRoute.      *)
(*                                                                         *)
(* Conventions.  An optional field is a sequence of length 0 (absent) or 1 *)
(* (present).  An "HH:MM" string is the pair <<h, m>>.  The running clock  *)
(* is an integer number of minutes.  All nodes lie on one meridian; lat is *)
(* given in tenths of a degree, lng is the same for every node.            *)
(***************************************************************************)
EXTENDS Integers, Sequences, FiniteSets, TLC

(* ---------------------------------------------------------------- bounds *)
MaxStops == 2
MaxBodyStops == 2

(* -------------------------------------------------------------- literals *)
None == <<>>
Some(x) == <<x>>
Null == "null"
HomeId == "__home__"
NegInfinity == [inf |-> TRUE, v |-> 0]
Finite(n) == [inf |-> FALSE, v |-> n]

batchSize == 5
DefaultTravel == 30
DefaultDuration == 30
UrgentSlack == 60
UrgentBonus == 50
PriorityStep == 30
ForcedFirstHorizon == 240
EndOfDay == 1440
DefaultStartTime == <<8, 0>>

(* ------------------------------------------------------- request domains *)
StopIds == <<"a", "b", "c", "d">>
StopLats == <<1, 0, 4, 6>>
HomeBases == { None, Some([lat |-> 3]), Some([lat |-> 0]) }

StopProfiles ==
  { [timeWindow |-> None, duration |-> None, priority |-> "undefined"],
    [timeWindow |-> Some([open |-> <<8, 0>>, close |-> <<9, 0>>]),
     duration |-> None, priority |-> "undefined"],
    [timeWindow |-> None, duration |-> Some(15), priority |-> "high"],
    [timeWindow |-> Some([open |-> <<7, 0>>, close |-> <<7, 30>>]),
     duration |-> Some(0), priority |-> "low"],
    [timeWindow |-> Some([open |-> <<10, 0>>, close |-> <<13, 0>>]),
     duration |-> Some(45), priority |-> "medium"],
    [timeWindow |-> Some([open |-> <<11, 0>>, close |-> <<10, 0>>]),
     duration |-> None, priority |-> "undefined"] }

StartTimes == { None, Some(<<23, 30>>) }

MkStop(k, p) ==
  [id |-> StopIds[k], name |-> StopIds[k], lat |-> StopLats[k],
   timeWindow |-> p.timeWindow, duration |-> p.duration,
   priority |-> p.priority]

StopLists ==
  UNION { { [k \in 1..n |-> MkStop(k, f[k])] : f \in [1..n -> StopProfiles] }
          : n \in 0..MaxStops }

StartLocations == { None, Some([lat |-> 2]) }

\* a start location is combined with the requests that have no home base
Requests ==
  { r \in [stops : StopLists, startTime : StartTimes,
           startLocation : StartLocations,
           homeBase : HomeBases, returnHome : BOOLEAN] :
      r.startLocation = None \/ (r.homeBase = None /\ ~r.returnHome) }

(* ---------------------------------------------------------- time strings *)
timeToMinutes(time) == time[1] * 60 + time[2]

\* variant: the hours are not wrapped at 24
minutesToTime_noWrap(minutes) == << minutes \div 60, minutes % 60 >>

minutesToTime(minutes) == << (minutes \div 60) % 24, minutes % 60 >>

\* a stop without a stated priority weighs as a low one
getPriorityWeight_defaultLow(priority) ==
  CASE priority = "high" -> 3
    [] priority = "medium" -> 2
    [] priority = "low" -> 1
    [] OTHER -> 1

getPriorityWeight(priority) ==
  CASE priority = "high" -> 3
    [] priority = "medium" -> 2
    [] priority = "low" -> 1
    [] OTHER -> 2

(* ------------------------------------------------- haversine on meridian *)
Abs(n) == IF n < 0 THEN 0 - n ELSE n

RoundDiv(num, den) == (2 * num + den) \div (2 * den)

\* km = R * c with c = |dLat| * pi / 180, pi taken as 355/113;
\* minutes = round(km / 50 * 60)
estimateDistance(from, to) ==
  RoundDiv(6371 * 355 * 6 * Abs(to.lat - from.lat), 113 * 180 * 50)

(* ----------------------------------------------------- external provider *)
\* whether the routing provider knows a route for the pair
ProviderHasRoute(from, to) == to.lat - from.lat # 3

\* routes[0] of the provider's answer: duration in seconds ("<n>s") and
\* distanceMeters; north-bound and south-bound legs differ
ProviderRoute(from, to) ==
  LET k == Abs(to.lat - from.lat)
  IN  [duration |-> IF to.lat >= from.lat THEN 600 * k ELSE 600 * k - 580,
       distanceMeters |-> 1000 * k]

(* ------------------------------------------------ feasibility and score *)
\* variant: the wait is computed without testing arrivalTime < open
isFeasible_unguardedWait(stop, arrivalTime) ==
  IF stop.timeWindow = None
  THEN [feasible |-> TRUE, waitTime |-> 0]
  ELSE IF arrivalTime > timeToMinutes(stop.timeWindow[1].close)
       THEN [feasible |-> FALSE, waitTime |-> 0]
       ELSE [feasible |-> TRUE,
             waitTime |-> timeToMinutes(stop.timeWindow[1].open)
                            - arrivalTime]

\* variant: an early arrival is served at once instead of waiting
isFeasible_noWait(stop, arrivalTime) ==
  IF stop.timeWindow = None
  THEN [feasible |-> TRUE, waitTime |-> 0]
  ELSE [feasible |-> arrivalTime <= timeToMinutes(stop.timeWindow[1].close),
        waitTime |-> 0]

\* variant: a stop without a window is taken to close at the end of the day
isFeasible_endOfDay(stop, arrivalTime) ==
  IF stop.timeWindow = None
  THEN [feasible |-> arrivalTime <= EndOfDay, waitTime |-> 0]
  ELSE LET open == timeToMinutes(stop.timeWindow[1].open)
           close == timeToMinutes(stop.timeWindow[1].close)
       IN  IF arrivalTime > close
           THEN [feasible |-> FALSE, waitTime |-> 0]
           ELSE [feasible |-> TRUE,
                 waitTime |-> IF arrivalTime < open
                              THEN open - arrivalTime ELSE 0]

\* variant: the arrival is compared with the window open, not the close
isFeasible_againstOpen(stop, arrivalTime) ==
  IF stop.timeWindow = None
  THEN [feasible |-> TRUE, waitTime |-> 0]
  ELSE LET open == timeToMinutes(stop.timeWindow[1].open)
       IN  IF arrivalTime > open
           THEN [feasible |-> FALSE, waitTime |-> 0]
           ELSE [feasible |-> TRUE,
                 waitTime |-> IF arrivalTime < open
                              THEN open - arrivalTime ELSE 0]

isFeasible(stop, arrivalTime) ==
  IF stop.timeWindow = None
  THEN [feasible |-> TRUE, waitTime |-> 0]
  ELSE LET open == timeToMinutes(stop.timeWindow[1].open)
           close == timeToMinutes(stop.timeWindow[1].close)
       IN  IF arrivalTime > close
           THEN [feasible |-> FALSE, waitTime |-> 0]
           ELSE [feasible |-> TRUE,
                 waitTime |-> IF arrivalTime < open
                              THEN open - arrivalTime ELSE 0]

\* the remainingStops parameter of the source is never read
scoreCandidate(stop, travelTime, currentTime) ==
  LET arrival == currentTime + travelTime
      f == isFeasible(stop, arrival)
      base == travelTime + f.waitTime
      urgent == IF stop.timeWindow # None
                   /\ timeToMinutes(stop.timeWindow[1].close) - arrival
                        < UrgentSlack
                THEN base - UrgentBonus ELSE base
      score == urgent - getPriorityWeight(stop.priority) * PriorityStep
  IN  IF ~f.feasible THEN NegInfinity ELSE Finite(0 - score)

\* JavaScript's > on numbers, -Infinity included
Greater(x, y) == ~x.inf /\ (y.inf \/ x.v > y.v)

(* ---------------------------------------------------------- travel matrix *)
\* matrix[from]?.[to]?.duration || 30
LookupDuration(matrix, from, to) ==
  IF <<from, to>> \in DOMAIN matrix /\ matrix[<<from, to>>].duration # 0
  THEN matrix[<<from, to>>].duration
  ELSE DefaultTravel

\* matrix[from]?.[to]?.distance || 0
LookupDistance(matrix, from, to) ==
  IF <<from, to>> \in DOMAIN matrix
  THEN matrix[<<from, to>>].distance
  ELSE 0

HomeStop(homeBase) ==
  [id |-> HomeId, name |-> "Home Base", lat |-> homeBase[1].lat,
   timeWindow |-> None, duration |-> None, priority |-> "undefined"]

matrixStops(req) ==
  IF req.homeBase # None
  THEN Append(req.stops, HomeStop(req.homeBase))
  ELSE req.stops

RECURSIVE Flatten(_)
Flatten(ss) == IF ss = <<>> THEN <<>> ELSE Head(ss) \o Flatten(Tail(ss))

\* the ordered pairs of distinct nodes, in the enumeration order of the
\* two nested loops
PairsOf(nodes) ==
  Flatten([f \in 1..Len(nodes) |->
            SelectSeq([t \in 1..Len(nodes) |->
                         [from |-> nodes[f], to |-> nodes[t]]],
                      LAMBDA p : p.from.id # p.to.id)])

\* variant: the geometric fallback also fills in a distance
MatrixCell_geometricDistance(from, to, result) ==
  [duration |-> IF result # None
                THEN RoundDiv(result[1].durationInTraffic, 60)
                ELSE estimateDistance(from, to),
   distance |-> IF result # None THEN result[1].distance
                ELSE 1000 * estimateDistance(from, to)]

\* one cell as written from a provider result (None is the null result)
MatrixCell(from, to, result) ==
  [duration |-> IF result # None
                THEN RoundDiv(result[1].durationInTraffic, 60)
                ELSE estimateDistance(from, to),
   distance |-> IF result # None THEN result[1].distance ELSE 0]

(* ------------------------------------------------------ start-stop choice *)
closeOrEndOfDay(stop) ==
  IF stop.timeWindow # None
  THEN timeToMinutes(stop.timeWindow[1].close) ELSE EndOfDay

compareUrgency(a, b) ==
  IF getPriorityWeight(a.priority) # getPriorityWeight(b.priority)
  THEN getPriorityWeight(b.priority) - getPriorityWeight(a.priority)
  ELSE closeOrEndOfDay(a) - closeOrEndOfDay(b)

RECURSIVE InsertStable(_, _)
InsertStable(sorted, x) ==
  IF sorted = <<>> THEN <<x>>
  ELSE IF compareUrgency(Head(sorted), x) <= 0
       THEN <<Head(sorted)>> \o InsertStable(Tail(sorted), x)
       ELSE <<x>> \o sorted

RECURSIVE sortedByUrgency(_)
sortedByUrgency(stops) ==
  IF stops = <<>> THEN <<>>
  ELSE InsertStable(sortedByUrgency(SubSeq(stops, 1, Len(stops) - 1)),
                    stops[Len(stops)])

\* variant: the most urgent stop is the starting position in every run
forcedFirst_always(stops, currentTime) == sortedByUrgency(stops)[1].id

forcedFirst(stops, currentTime) ==
  LET firstCandidate == sortedByUrgency(stops)[1]
  IN  IF firstCandidate.priority = "high"
         \/ (firstCandidate.timeWindow # None
             /\ timeToMinutes(firstCandidate.timeWindow[1].close)
                  < currentTime + ForcedFirstHorizon)
      THEN firstCandidate.id
      ELSE Null

(* ------------------------------------------------------- greedy selection *)
StopById(stops, id) == CHOOSE s \in { stops[k] : k \in 1..Len(stops) } : s.id = id

NoBest == [id |-> Null, score |-> NegInfinity, travel |-> 0]

\* variant: a later candidate with an equal score replaces the best one
RECURSIVE ScanCandidates_lastTie(_, _, _, _, _, _)
ScanCandidates_lastTie(ids, stops, matrix, currentId, currentTime, best) ==
  IF ids = <<>> THEN best
  ELSE LET id == Head(ids)
           travel == IF currentId = Null THEN 0
                     ELSE LookupDuration(matrix, currentId, id)
           score == scoreCandidate(StopById(stops, id), travel, currentTime)
           next == IF ~score.inf /\ ~Greater(best.score, score)
                   THEN [id |-> id, score |-> score, travel |-> travel]
                   ELSE best
       IN  ScanCandidates_lastTie(Tail(ids), stops, matrix, currentId,
                                  currentTime, next)

\* the two for-loops over the unvisited set; with no current position every
\* candidate is scored with travel 0 and bestTravel keeps its initial 0
RECURSIVE ScanCandidates(_, _, _, _, _, _)
ScanCandidates(ids, stops, matrix, currentId, currentTime, best) ==
  IF ids = <<>> THEN best
  ELSE LET id == Head(ids)
           travel == IF currentId = Null THEN 0
                     ELSE LookupDuration(matrix, currentId, id)
           score == scoreCandidate(StopById(stops, id), travel, currentTime)
           next == IF Greater(score, best.score)
                   THEN [id |-> id, score |-> score, travel |-> travel]
                   ELSE best
       IN  ScanCandidates(Tail(ids), stops, matrix, currentId, currentTime,
                          next)

\* the stop taken when the scan found none: [...unvisited][0]
TakeAnyRemaining(unvisited, matrix, currentId) ==
  [id |-> Head(unvisited),
   travel |-> IF currentId # Null
              THEN LookupDuration(matrix, currentId, Head(unvisited))
              ELSE 0,
   fallback |-> TRUE]

\* if (!bestId) { ... take any remaining ... }
OrAnyRemaining(best, unvisited, matrix, currentId) ==
  IF best.id = Null
  THEN TakeAnyRemaining(unvisited, matrix, currentId)
  ELSE [id |-> best.id, travel |-> best.travel, fallback |-> FALSE]

SelectNext(unvisited, stops, matrix, currentId, currentTime) ==
  OrAnyRemaining(ScanCandidates(unvisited, stops, matrix, currentId,
                                currentTime, NoBest),
                 unvisited, matrix, currentId)

serviceDuration(stop) ==
  IF stop.duration # None /\ stop.duration[1] # 0
  THEN stop.duration[1] ELSE DefaultDuration

\* variant: the first remaining id is deleted instead of the chosen one
RemoveId_first(ids, id) == Tail(ids)

\* variant: the delete misses its key and removes nothing
RemoveId_none(ids, id) == ids

RemoveId(ids, id) == SelectSeq(ids, LAMBDA x : x # id)

\* variant: order is the zero-based index
RouteEntry_zeroBased(stop, order, actualArrival, departure, waitTime, travelTime) ==
  [id |-> stop.id, name |-> stop.name, order |-> order - 1,
   arrivalTime |-> minutesToTime(actualArrival),
   departureTime |-> minutesToTime(departure),
   waitTime |-> IF waitTime > 0 THEN Some(waitTime) ELSE None,
   travelTimeFromPrevious |-> travelTime]

\* the route entry pushed for a stop
RouteEntry(stop, order, actualArrival, departure, waitTime, travelTime) ==
  [id |-> stop.id, name |-> stop.name, order |-> order,
   arrivalTime |-> minutesToTime(actualArrival),
   departureTime |-> minutesToTime(departure),
   waitTime |-> IF waitTime > 0 THEN Some(waitTime) ELSE None,
   travelTimeFromPrevious |-> travelTime]

\* variant: the re-check of the chosen stop pushes no warning
PassWarnings_fallbackOnly(fallback, stopFeasible, bestId, name) ==
  IF fallback
  THEN << [kind |-> "may not be reachable", subject |-> bestId] >>
  ELSE << >>

\* the warnings one pass pushes
PassWarnings(fallback, stopFeasible, bestId, name) ==
  (IF fallback
   THEN << [kind |-> "may not be reachable", subject |-> bestId] >>
   ELSE << >>)
  \o (IF ~stopFeasible
      THEN << [kind |-> "cannot reach", subject |-> name] >>
      ELSE << >>)

\* the locals of one pass once the stop, its travel time and its
\* feasibility are known
Scheduled(sel, stop, travelTime, arrival, f, duration, order) ==
  [bestId |-> sel.id, fallback |-> sel.fallback,
   travelTime |-> travelTime, arrival |-> arrival,
   stopFeasible |-> f.feasible, waitTime |-> f.waitTime,
   actualArrival |-> arrival + f.waitTime, duration |-> duration,
   departure |-> arrival + f.waitTime + duration,
   entry |-> RouteEntry(stop, order, arrival + f.waitTime,
                        arrival + f.waitTime + duration, f.waitTime,
                        travelTime),
   newWarnings |-> PassWarnings(sel.fallback, f.feasible, sel.id, stop.name)]

AtArrival(sel, stop, travelTime, arrival, order) ==
  Scheduled(sel, stop, travelTime, arrival, isFeasible(stop, arrival),
            serviceDuration(stop), order)

\* const travelTime = currentId ? bestTravel : 0
WithTravel(sel, stop, travelTime, currentTime, order) ==
  AtArrival(sel, stop, travelTime, currentTime + travelTime, order)

PassFor(sel, stops, currentId, currentTime, order) ==
  WithTravel(sel, StopById(stops, sel.id),
             IF currentId # Null THEN sel.travel ELSE 0, currentTime, order)

\* everything one pass of the while loop computes
LoopPass(unvisited, stops, matrix, currentId, currentTime, order) ==
  PassFor(SelectNext(unvisited, stops, matrix, currentId, currentTime),
          stops, currentId, currentTime, order)

(* ------------------------------------------------------------------ state *)
VARIABLES
  pc,               \* position of the optimizeRoute call
  apiKey,           \* whether process.env holds a usable provider key
  httpOk,           \* whether the provider answers with a success status
  request,          \* the OptimizeRequest of the call
  pairs,            \* buildTravelMatrix: the list of ordered pairs
  i,                \* buildTravelMatrix: start offset of the current batch
  inflight,         \* indices of pairs whose provider call is outstanding
  issued,           \* history: indices of the provider calls started so far
  results,          \* results of the completed calls of the current batch
  matrix,           \* the travel matrix, keyed by <<from id, to id>>
  unvisited,        \* ids not yet scheduled, in insertion order
  route,            \* the OptimizedStop list built so far
  currentTime,      \* the running clock in minutes
  currentId,        \* id of the current position, or Null
  totalDistance,
  totalDriveTime,
  totalServiceTime,
  feasible,
  warnings,
  steps,            \* history: the locals of every pass of the main loop
  response,         \* the OptimizeResponse once returned
  scoreIn,          \* arguments of a scoreCandidate call
  scoreOut,         \* its return value, once it has returned
  hpc,              \* position of the POST /api/optimize handler
  body,             \* the JSON body the handler received
  reply,            \* the HTTP reply of the handler
  optimizeCalls     \* number of optimizeRoute calls the handler made

vars == << pc, apiKey, httpOk, request, pairs, i, inflight, issued, results,
          matrix,
           unvisited, route, currentTime, currentId, totalDistance,
           totalDriveTime, totalServiceTime, feasible, warnings, steps,
           response, scoreIn, scoreOut, hpc, body, reply, optimizeCalls >>

buildVars == << pairs, i, inflight, issued, results, matrix >>
envVars == << apiKey, httpOk >>
scoreVars == << scoreIn, scoreOut >>
handlerVars == << hpc, body, reply, optimizeCalls >>
auxVars == << scoreVars, handlerVars >>
loopVars == << unvisited, route, currentTime, currentId, totalDistance,
               totalDriveTime, totalServiceTime, feasible, warnings, steps >>

NoRequest ==
  [stops |-> <<>>, startTime |-> None, startLocation |-> None,
   homeBase |-> None, returnHome |-> FALSE]

startTimeOf(req) ==
  IF req.startTime # None THEN req.startTime[1] ELSE DefaultStartTime

\* no optimizeRoute call has been made yet
OptimizerIdle ==
  /\ pc = "idle"
  /\ apiKey \in BOOLEAN
  /\ httpOk \in BOOLEAN
  /\ (~apiKey => httpOk)
  /\ request = NoRequest
  /\ pairs = <<>>
  /\ i = 0
  /\ inflight = {}
  /\ issued = <<>>
  /\ results = <<>>
  /\ matrix = <<>>
  /\ unvisited = <<>>
  /\ route = <<>>
  /\ currentTime = 0
  /\ currentId = Null
  /\ totalDistance = 0
  /\ totalDriveTime = 0
  /\ totalServiceTime = 0
  /\ feasible = TRUE
  /\ warnings = <<>>
  /\ steps = <<>>
  /\ response = None

NoScoreCall ==
  [stop |-> MkStop(1, [timeWindow |-> None, duration |-> None,
                       priority |-> "undefined"]),
   travelTime |-> 0, currentTime |-> 0]

ScoreIdle ==
  /\ scoreIn = NoScoreCall
  /\ scoreOut = None

NoBody == [isNull |-> TRUE, stops |-> [tag |-> "undefined", items |-> <<>>]]

HandlerIdle ==
  /\ hpc = "idle"
  /\ body = NoBody
  /\ reply = None
  /\ optimizeCalls = 0

Init ==
  /\ OptimizerIdle
  /\ ScoreIdle
  /\ HandlerIdle

\* the empty answer always ends at the default start time
EmptyResponse_defaultStart(req) ==
  [optimizedRoute |-> <<>>, totalDuration |-> 0, totalDistance |-> 0,
   totalDriveTime |-> 0, totalServiceTime |-> 0,
   estimatedEndTime |-> DefaultStartTime, feasible |-> TRUE,
   warnings |-> None, returnToHomeTime |-> None]

EmptyResponse(req) ==
  [optimizedRoute |-> <<>>, totalDuration |-> 0, totalDistance |-> 0,
   totalDriveTime |-> 0, totalServiceTime |-> 0,
   estimatedEndTime |-> startTimeOf(req), feasible |-> TRUE,
   warnings |-> None, returnToHomeTime |-> None]

(* ---------------------------------------------------------------- actions *)
\* entry of optimizeRoute up to the call of buildTravelMatrix
Enter(req) ==
  /\ pc = "idle"
  /\ request' = req
  /\ IF Len(req.stops) = 0
     THEN /\ response' = Some(EmptyResponse(req))
          /\ pc' = "done"
          /\ UNCHANGED pairs
     ELSE /\ pairs' = PairsOf(matrixStops(req))
          /\ pc' = "build"
          /\ UNCHANGED response
  /\ UNCHANGED << envVars, auxVars, i, inflight, issued, results, matrix,
                  loopVars >>

Min(a, b) == IF a < b THEN a ELSE b

\* variant: all remaining pairs are requested in one go
StartBatch_all ==
  /\ pc = "build"
  /\ i < Len(pairs)
  /\ inflight' = (i + 1)..Len(pairs)
  /\ issued' = issued \o [n \in 1..(Len(pairs) - i) |-> i + n]
  /\ results' = <<>>
  /\ pc' = "await"
  /\ UNCHANGED << envVars, auxVars, request, pairs, i, matrix, loopVars, response >>

\* one batch is sliced off and its provider calls are issued together
StartBatch ==
  /\ pc = "build"
  /\ i < Len(pairs)
  /\ inflight' = (i + 1)..Min(i + batchSize, Len(pairs))
  /\ issued' = issued \o [n \in 1..(Min(i + batchSize, Len(pairs)) - i)
                            |-> i + n]
  /\ results' = <<>>
  /\ pc' = "await"
  /\ UNCHANGED << envVars, auxVars, request, pairs, i, matrix, loopVars, response >>

Complete(k, result) ==
  /\ pc = "await"
  /\ k \in inflight
  /\ inflight' = inflight \ {k}
  /\ results' = (k :> result) @@ results
  /\ UNCHANGED << pc, envVars, auxVars, request, pairs, i, issued, matrix,
                  loopVars, response >>

\* fetchGoogleTraffic: no key configured
FetchNoKey(k) ==
  /\ ~apiKey
  /\ Complete(k, None)

\* fetchGoogleTraffic: the provider answers with a non-success status
FetchHttpError(k) ==
  /\ apiKey
  /\ ~httpOk
  /\ Complete(k, None)

\* fetchGoogleTraffic: a success response that holds no route
FetchNoRoute(k) ==
  /\ apiKey
  /\ httpOk
  /\ k \in inflight
  /\ ~ProviderHasRoute(pairs[k].from, pairs[k].to)
  /\ Complete(k, None)

\* fetchGoogleTraffic: a success response with a route
FetchOk(k) ==
  /\ apiKey
  /\ httpOk
  /\ k \in inflight
  /\ ProviderHasRoute(pairs[k].from, pairs[k].to)
  /\ LET r == ProviderRoute(pairs[k].from, pairs[k].to)
     IN  Complete(k, Some([durationInTraffic |-> r.duration,
                           distance |-> r.distanceMeters]))

\* fetchGoogleTraffic: fetch (or reading the body) raises; nothing catches
\* it, so Promise.all, buildTravelMatrix and optimizeRoute reject
FetchThrows(k) ==
  /\ apiKey
  /\ pc = "await"
  /\ k \in inflight
  /\ pc' = "rejected"
  /\ UNCHANGED << envVars, auxVars, request, buildVars, loopVars, response >>

\* variant: the results of a batch are read in the reverse of the call order
BatchCells_reversed ==
  [key \in { << pairs[k].from.id, pairs[k].to.id >> : k \in DOMAIN results }
     |-> LET k == CHOOSE n \in DOMAIN results :
                    << pairs[n].from.id, pairs[n].to.id >> = key
         IN  MatrixCell(pairs[k].from, pairs[k].to,
                        results[i + 1 + Min(i + batchSize, Len(pairs)) - k])]

BatchCells ==
  [key \in { << pairs[k].from.id, pairs[k].to.id >> : k \in DOMAIN results }
     |-> LET k == CHOOSE n \in DOMAIN results :
                    << pairs[n].from.id, pairs[n].to.id >> = key
         IN  MatrixCell(pairs[k].from, pairs[k].to, results[k])]

\* Promise.all has resolved: the batch is written and the loop advances
WriteBatch ==
  /\ pc = "await"
  /\ inflight = {}
  /\ matrix' = BatchCells @@ matrix
  /\ i' = i + batchSize
  /\ results' = <<>>
  /\ pc' = "build"
  /\ UNCHANGED << envVars, auxVars, request, pairs, inflight, issued, loopVars,
                  response >>

\* variant: the home base is the position the first leg starts from
BeginRoute_fromHome ==
  /\ pc = "build"
  /\ i >= Len(pairs)
  /\ unvisited' = [k \in 1..Len(request.stops) |-> request.stops[k].id]
  /\ route' = <<>>
  /\ currentTime' = timeToMinutes(startTimeOf(request))
  /\ currentId' = IF request.homeBase # None THEN HomeId
                  ELSE forcedFirst(request.stops,
                                   timeToMinutes(startTimeOf(request)))
  /\ totalDistance' = 0
  /\ totalDriveTime' = 0
  /\ totalServiceTime' = 0
  /\ feasible' = TRUE
  /\ warnings' = <<>>
  /\ steps' = <<>>
  /\ pc' = "loop"
  /\ UNCHANGED << envVars, auxVars, request, buildVars, response >>

\* variant: selection starts as soon as the pairs are listed
BeginRoute_eager ==
  /\ pc = "build"
  /\ unvisited' = [k \in 1..Len(request.stops) |-> request.stops[k].id]
  /\ route' = <<>>
  /\ currentTime' = timeToMinutes(startTimeOf(request))
  /\ currentId' = forcedFirst(request.stops,
                              timeToMinutes(startTimeOf(request)))
  /\ totalDistance' = 0
  /\ totalDriveTime' = 0
  /\ totalServiceTime' = 0
  /\ feasible' = TRUE
  /\ warnings' = <<>>
  /\ steps' = <<>>
  /\ pc' = "loop"
  /\ UNCHANGED << envVars, auxVars, request, buildVars, response >>

\* the matrix is complete: set up the greedy loop and the start stop
BeginRoute ==
  /\ pc = "build"
  /\ i >= Len(pairs)
  /\ unvisited' = [k \in 1..Len(request.stops) |-> request.stops[k].id]
  /\ route' = <<>>
  /\ currentTime' = timeToMinutes(startTimeOf(request))
  /\ currentId' = forcedFirst(request.stops,
                              timeToMinutes(startTimeOf(request)))
  /\ totalDistance' = 0
  /\ totalDriveTime' = 0
  /\ totalServiceTime' = 0
  /\ feasible' = TRUE
  /\ warnings' = <<>>
  /\ steps' = <<>>
  /\ pc' = "loop"
  /\ UNCHANGED << envVars, auxVars, request, buildVars, response >>

\* variant: the flag is combined with "or" instead of "and"
nextFeasible_or(flag, fallback, stopFeasible) ==
  flag \/ (~fallback /\ stopFeasible)

\* feasible = false in the fallback branch and in the re-check branch
nextFeasible(flag, fallback, stopFeasible) ==
  flag /\ ~fallback /\ stopFeasible

\* the assignments of one pass
Advance(p) ==
  /\ route' = Append(route, p.entry)
  /\ warnings' = warnings \o p.newWarnings
  /\ feasible' = nextFeasible(feasible, p.fallback, p.stopFeasible)
  /\ totalDistance' =
       totalDistance
       + (IF currentId # Null
          THEN LookupDistance(matrix, currentId, p.bestId) ELSE 0)
  /\ totalDriveTime' = totalDriveTime + p.travelTime
  /\ totalServiceTime' = totalServiceTime + p.duration
  /\ currentTime' = p.departure
  /\ currentId' = p.bestId
  /\ unvisited' = RemoveId(unvisited, p.bestId)
  /\ steps' = Append(steps,
       [id |-> p.bestId, clockBefore |-> currentTime,
        positionBefore |-> currentId,
        travelTime |-> p.travelTime, arrival |-> p.arrival,
        waitTime |-> p.waitTime, actualArrival |-> p.actualArrival,
        duration |-> p.duration, departure |-> p.departure,
        fallback |-> p.fallback, stopFeasible |-> p.stopFeasible,
        warned |-> Len(p.newWarnings),
        feasibleBefore |-> feasible,
        feasibleAfter |-> feasible'])

\* one pass of while (unvisited.size > 0)
Iterate ==
  /\ pc = "loop"
  /\ unvisited # <<>>
  /\ Advance(LoopPass(unvisited, request.stops, matrix, currentId,
                      currentTime, Len(route) + 1))
  /\ UNCHANGED << pc, envVars, auxVars, request, buildVars, response >>

\* matrix[currentId]?.["__home__"]?.duration || estimateDistance(...)
homeReturn(m, lastStop, homeBase) ==
  IF << lastStop.id, HomeId >> \in DOMAIN m
     /\ m[<< lastStop.id, HomeId >>].duration # 0
  THEN m[<< lastStop.id, HomeId >>].duration
  ELSE estimateDistance(lastStop, HomeStop(homeBase))

\* the total duration is taken before the return leg is driven
Respond_beforeReturnLeg(goHome, leg, distance) ==
  /\ currentTime' = currentTime + leg
  /\ totalDriveTime' = totalDriveTime + leg
  /\ totalDistance' = totalDistance + distance
  /\ response' = Some(
       [optimizedRoute |-> route,
        totalDuration |->
          currentTime - timeToMinutes(startTimeOf(request)),
        totalDistance |-> totalDistance',
        totalDriveTime |-> totalDriveTime',
        totalServiceTime |-> totalServiceTime,
        estimatedEndTime |-> minutesToTime(currentTime'),
        feasible |-> feasible,
        warnings |-> IF Len(warnings) > 0 THEN Some(warnings) ELSE None,
        returnToHomeTime |-> IF goHome THEN Some(leg) ELSE None])

Respond(goHome, leg, distance) ==
  /\ currentTime' = currentTime + leg
  /\ totalDriveTime' = totalDriveTime + leg
  /\ totalDistance' = totalDistance + distance
  /\ response' = Some(
       [optimizedRoute |-> route,
        totalDuration |->
          currentTime' - timeToMinutes(startTimeOf(request)),
        totalDistance |-> totalDistance',
        totalDriveTime |-> totalDriveTime',
        totalServiceTime |-> totalServiceTime,
        estimatedEndTime |-> minutesToTime(currentTime'),
        feasible |-> feasible,
        warnings |-> IF Len(warnings) > 0 THEN Some(warnings) ELSE None,
        returnToHomeTime |-> IF goHome THEN Some(leg) ELSE None])

\* the return leg is taken whenever a home base is known
goesHome_always(req, lastId) == req.homeBase # None /\ lastId # Null

\* if (returnHome && homeBase && currentId)
goesHome(req, lastId) ==
  req.returnHome /\ req.homeBase # None /\ lastId # Null

\* the loop has ended: optional return leg, totals, and the response
Return ==
  /\ pc = "loop"
  /\ unvisited = <<>>
  /\ IF goesHome(request, currentId)
     THEN Respond(TRUE,
                  homeReturn(matrix, StopById(request.stops, currentId),
                             request.homeBase),
                  LookupDistance(matrix, currentId, HomeId))
     ELSE Respond(FALSE, 0, 0)
  /\ pc' = "done"
  /\ UNCHANGED << envVars, auxVars, request, buildVars, unvisited, route, currentId,
                  totalServiceTime, feasible, warnings, steps >>

Next ==
  \/ (pc = "idle" /\ \E req \in Requests : Enter(req))
  \/ StartBatch
  \/ \E k \in inflight : FetchNoKey(k)
  \/ \E k \in inflight : FetchHttpError(k)
  \/ \E k \in inflight : FetchNoRoute(k)
  \/ \E k \in inflight : FetchOk(k)
  \/ \E k \in inflight : FetchThrows(k)
  \/ WriteBatch
  \/ BeginRoute
  \/ Iterate
  \/ Return

Spec == Init /\ [][Next]_vars

(* ================================================================ claims *)
N == Len(request.stops)
InputIds == { request.stops[k].id : k \in 1..N }
StepStop(k) == StopById(request.stops, steps[k].id)
HasWindow(stop) == stop.timeWindow # None
OpenOf(stop) == timeToMinutes(stop.timeWindow[1].open)
CloseOf(stop) == timeToMinutes(stop.timeWindow[1].close)
Responded == pc = "done" /\ N > 0
\* pass k scheduled its stop with a computed arrival after the window close
Late(k) == HasWindow(StepStop(k)) /\ steps[k].arrival > CloseOf(StepStop(k))
\* pass k reached its stop before a well-formed window opened
Early(k) ==
  /\ HasWindow(StepStop(k))
  /\ OpenOf(StepStop(k)) <= CloseOf(StepStop(k))
  /\ OpenOf(StepStop(k)) > steps[k].arrival

\* C1: for a non-empty request the ids of optimizedRoute are a permutation of
\* the input stop ids: each input id exactly once, and no other id (not
\* "__home__") appears.
C1_RouteIsPermutation ==
  Responded =>
    /\ Len(response[1].optimizedRoute) = N
    /\ \A id \in InputIds :
         Cardinality({ j \in 1..Len(response[1].optimizedRoute) :
                         response[1].optimizedRoute[j].id = id }) = 1
    /\ \A j \in 1..Len(response[1].optimizedRoute) :
         /\ response[1].optimizedRoute[j].id \in InputIds
         /\ response[1].optimizedRoute[j].id # HomeId

\* a two-stop response with a home node in the matrix whose route reverses
\* the input order after a pass that read a missing matrix entry
C1_Witness ==
  /\ Responded
  /\ N = 2
  /\ request.homeBase # None
  /\ response[1].optimizedRoute[1].id = "b"
  /\ \E k \in 1..Len(steps) :
       /\ steps[k].positionBefore # Null
       /\ << steps[k].positionBefore, steps[k].id >> \notin DOMAIN matrix

\* C2: the route entry at list position k has order = k, so the order
\* fields are 1..N.
C2_OrderMatchesPosition ==
  /\ \A k \in 1..Len(route) : route[k].order = k
  /\ Responded =>
       /\ Len(response[1].optimizedRoute) = N
       /\ \A k \in 1..N : response[1].optimizedRoute[k].order = k

C2_Witness ==
  /\ Responded
  /\ N = 2
  /\ response[1].optimizedRoute[2].order = 2
  /\ response[1].optimizedRoute[2].id = "a"

\* C3: on the unwrapped clock, the actual arrival of entry k+1 is at or
\* after the departure of entry k, and the clock value at the start of a pass
\* is never below the value at the start of the previous pass, nor does a
\* pass or the return leg move the clock back.
C3_ClockMonotonic ==
  /\ \A k \in 1..Len(steps) :
       /\ steps[k].departure >= steps[k].clockBefore
       /\ k < Len(steps) =>
            /\ steps[k + 1].actualArrival >= steps[k].departure
            /\ steps[k + 1].clockBefore >= steps[k].clockBefore
  /\ (pc \in {"loop", "done"} /\ Len(steps) > 0) =>
       currentTime >= steps[Len(steps)].departure

\* two passes, the second with travel and a wait, past the display wrap or not
C3_Witness ==
  /\ Len(steps) = 2
  /\ steps[2].travelTime > 0
  /\ steps[2].waitTime > 0
  /\ steps[2].actualArrival > steps[1].departure

\* C4: the main loop ends after exactly N passes: each pass removes exactly
\* one stop from the unvisited set (feasible candidate or not, matrix entry
\* present or not), and the call then returns a response.
C4_LoopRunsNPasses ==
  /\ pc = "loop" => Len(steps) + Len(unvisited) = N
  /\ pc = "loop" => \A a, b \in 1..Len(unvisited) :
                      a # b => unvisited[a] # unvisited[b]
  /\ Responded => /\ Len(steps) = N
                  /\ unvisited = <<>>
                  /\ response # None

\* a finished two-stop run whose first pass found no feasible candidate and
\* looked up a matrix entry that does not exist
C4_Witness ==
  /\ Responded
  /\ N = 2
  /\ steps[1].fallback
  /\ steps[1].positionBefore # Null
  /\ << steps[1].positionBefore, steps[1].id >> \notin DOMAIN matrix
  /\ steps[2].fallback

\* C5: no outcome of a provider call makes optimizeRoute reject: a duration
\* is stored for the pair and a response is returned.
C5_NeverRejects == pc # "rejected"

\* C6: a stop with a window that is scheduled with a computed arrival after
\* its close stays in the route with zero wait and departure = arrival +
\* service duration, and the response has feasible = false and warnings.
C6_LateStopFlaggedAndKept ==
  /\ \A k \in 1..Len(steps) :
       Late(k) =>
         /\ route[k].id = steps[k].id
         /\ route[k].waitTime = None
         /\ steps[k].waitTime = 0
         /\ steps[k].departure = steps[k].arrival + steps[k].duration
         /\ route[k].departureTime
              = minutesToTime(steps[k].arrival
                              + serviceDuration(StepStop(k)))
         /\ ~feasible
         /\ Len(warnings) > 0
  /\ (Responded /\ \E k \in 1..Len(steps) : Late(k)) =>
       /\ ~response[1].feasible
       /\ response[1].warnings # None
       /\ Len(response[1].warnings[1]) > 0
       /\ \A k \in 1..Len(steps) :
            Late(k) => response[1].optimizedRoute[k].id = steps[k].id

\* a response whose second stop was reached after its window had closed
\* although the first stop was served in time
C6_Witness ==
  /\ Responded
  /\ N = 2
  /\ ~Late(1)
  /\ Late(2)
  /\ steps[2].clockBefore <= CloseOf(StepStop(2))

\* C7: feasible is true iff no scheduled stop had a computed arrival after
\* its window close; so with feasible = true every stop with a window
\* open <= close starts service within [open, close].
C7_FeasibleIffNoLateStop ==
  Responded =>
    /\ response[1].feasible <=> (\A k \in 1..Len(steps) : ~Late(k))
    /\ response[1].feasible =>
         \A k \in 1..Len(steps) :
           (HasWindow(StepStop(k))
            /\ OpenOf(StepStop(k)) <= CloseOf(StepStop(k))) =>
             /\ steps[k].arrival + steps[k].waitTime >= OpenOf(StepStop(k))
             /\ steps[k].arrival + steps[k].waitTime <= CloseOf(StepStop(k))

\* a feasible response with two windowed stops, one of them waited for
C7_Witness ==
  /\ Responded
  /\ N = 2
  /\ response[1].feasible
  /\ HasWindow(StepStop(1))
  /\ HasWindow(StepStop(2))
  /\ OpenOf(StepStop(2)) <= CloseOf(StepStop(2))
  /\ steps[2].waitTime > 0

\* C8: a stop whose window (open <= close) opens after the computed arrival
\* gets waitTime = open - arrival, its reported arrival time is the window
\* open time, and the pass adds no warning and leaves feasible as it was.
C8_EarlyArrivalWaits ==
  \A k \in 1..Len(steps) :
    Early(k) =>
      /\ steps[k].waitTime = OpenOf(StepStop(k)) - steps[k].arrival
      /\ route[k].waitTime = Some(OpenOf(StepStop(k)) - steps[k].arrival)
      /\ route[k].arrivalTime = StepStop(k).timeWindow[1].open
      /\ steps[k].warned = 0
      /\ steps[k].feasibleAfter = steps[k].feasibleBefore

\* the second stop is reached by a drive before its window opens
C8_Witness ==
  /\ Len(steps) = 2
  /\ Early(2)
  /\ steps[2].travelTime > 0
  /\ steps[2].feasibleBefore

\* C9: a stop without a time window is feasible at any arrival time, its
\* route entry has no waitTime, and its pass adds no warning and leaves
\* feasible as it was.
C9_NoWindowNeverWaits ==
  /\ \A k \in 1..Len(steps) :
       ~HasWindow(StepStop(k)) =>
         /\ steps[k].stopFeasible
         /\ ~steps[k].fallback
         /\ steps[k].waitTime = 0
         /\ route[k].waitTime = None
         /\ steps[k].warned = 0
         /\ steps[k].feasibleAfter = steps[k].feasibleBefore
         /\ steps[k].actualArrival = steps[k].arrival

\* a stop without a window scheduled past midnight on the running clock
C9_Witness ==
  /\ Len(steps) = 2
  /\ ~HasWindow(StepStop(2))
  /\ steps[2].arrival > EndOfDay

\* C10: the first route entry has travelTimeFromPrevious = 0 and its
\* computed arrival equals the start time, whatever the priorities and
\* windows of the stops.
C10_FirstStopAtStartTime ==
  Responded =>
    /\ response[1].optimizedRoute[1].travelTimeFromPrevious = 0
    /\ steps[1].arrival = timeToMinutes(startTimeOf(request))

\* vocabulary of the start-stop claims: the priority levels as the
\* specification numbers them, and the most urgent stop of the request
LevelOf(priority) ==
  CASE priority = "high" -> 3
    [] priority = "low" -> 1
    [] OTHER -> 2
CloseOrMidnight(stop) == IF HasWindow(stop) THEN CloseOf(stop) ELSE 1440
MoreUrgent(x, y) ==
  \/ LevelOf(x.priority) > LevelOf(y.priority)
  \/ /\ LevelOf(x.priority) = LevelOf(y.priority)
     /\ CloseOrMidnight(x) < CloseOrMidnight(y)
MostUrgent ==
  request.stops[CHOOSE k \in 1..N :
                  \A j \in 1..N :
                    /\ ~MoreUrgent(request.stops[j], request.stops[k])
                    /\ j < k => MoreUrgent(request.stops[k],
                                           request.stops[j])]
StartMinutes == timeToMinutes(startTimeOf(request))
TrulyUrgent(stop) ==
  \/ stop.priority = "high"
  \/ HasWindow(stop) /\ CloseOf(stop) < StartMinutes + 240

\* C11: if the most urgent stop (priority descending, close ascending, ties
\* in input order) is priority high or has a window closing before
\* start + 240, it is the first entry of optimizedRoute.
C11_MostUrgentGoesFirst ==
  (Responded /\ TrulyUrgent(MostUrgent)) =>
    response[1].optimizedRoute[1].id = MostUrgent.id

\* vocabulary of the totals claims
RECURSIVE SumSeq(_)
SumSeq(s) == IF s = <<>> THEN 0 ELSE Head(s) + SumSeq(Tail(s))
LegSum ==
  SumSeq([k \in 1..Len(response[1].optimizedRoute) |->
            response[1].optimizedRoute[k].travelTimeFromPrevious])
ReturnLegAsked == request.returnHome /\ request.homeBase # None
LastId == response[1].optimizedRoute[N].id

\* C12: with returnHome, a homeBase and at least one stop, returnToHomeTime is
\* the matrix duration from the last route entry to the home node and
\* totalDriveTime is the sum of travelTimeFromPrevious plus that leg; without
\* a return leg totalDriveTime is the sum alone.
C12_ReturnLegIsMatrixEntry ==
  Responded =>
    IF ReturnLegAsked
    THEN /\ << LastId, HomeId >> \in DOMAIN matrix
         /\ response[1].returnToHomeTime =
              Some(matrix[<< LastId, HomeId >>].duration)
         /\ response[1].totalDriveTime =
              LegSum + matrix[<< LastId, HomeId >>].duration
    ELSE response[1].totalDriveTime = LegSum

\* C13: returnToHomeTime is present exactly when returnHome is true, a
\* homeBase is given and at least one stop was visited; the home node is
\* never an entry of optimizedRoute, whose length stays N.
C13_ReturnLegOnlyInTotals ==
  pc = "done" =>
    /\ response[1].returnToHomeTime # None <=> (ReturnLegAsked /\ N > 0)
    /\ Len(response[1].optimizedRoute) = N
    /\ \A k \in 1..Len(response[1].optimizedRoute) :
         response[1].optimizedRoute[k].id # HomeId

C13_Witness ==
  /\ Responded
  /\ N = 2
  /\ ReturnLegAsked
  /\ response[1].returnToHomeTime # None
  /\ Len(response[1].optimizedRoute) = 2

\* C14: a request with zero stops is answered at once with an empty route,
\* feasible, all totals 0, estimatedEndTime the given start time (08:00 when
\* omitted), no warnings, no returnToHomeTime, and without any travel
\* estimator call (no pair is built, no batch is issued, no cell is written).
C14_EmptyRequest ==
  (pc # "idle" /\ N = 0) =>
    /\ pc = "done"
    /\ response # None
    /\ response[1].optimizedRoute = <<>>
    /\ response[1].feasible
    /\ response[1].totalDuration = 0
    /\ response[1].totalDistance = 0
    /\ response[1].totalDriveTime = 0
    /\ response[1].totalServiceTime = 0
    /\ response[1].estimatedEndTime =
         (IF request.startTime = None THEN << 8, 0 >>
          ELSE request.startTime[1])
    /\ response[1].warnings = None
    /\ response[1].returnToHomeTime = None
    /\ pairs = <<>> /\ i = 0 /\ inflight = {} /\ results = <<>>
    /\ matrix = <<>>

C14_Witness ==
  /\ pc = "done"
  /\ N = 0
  /\ request.startTime = Some(<< 23, 30 >>)
  /\ ReturnLegAsked
  /\ response[1].estimatedEndTime = << 23, 30 >>

\* C15: for every route entry after the first, travelTimeFromPrevious is the
\* duration the matrix stores from the previous entry to this one whenever
\* such an entry exists (whatever its value), and the default 30 only when
\* the entry is missing.
C15_LegIsStoredDuration ==
  Responded =>
    \A k \in 2..N :
      LET leg == << response[1].optimizedRoute[k - 1].id,
                    response[1].optimizedRoute[k].id >>
      IN  response[1].optimizedRoute[k].travelTimeFromPrevious =
            (IF leg \in DOMAIN matrix THEN matrix[leg].duration ELSE 30)

WaitSum ==
  SumSeq([k \in 1..Len(response[1].optimizedRoute) |->
            IF response[1].optimizedRoute[k].waitTime = None THEN 0
            ELSE response[1].optimizedRoute[k].waitTime[1]])
GivenStart ==
  IF request.startTime = None THEN 8 * 60
  ELSE request.startTime[1][1] * 60 + request.startTime[1][2]
\* hours and minutes of a clock value, the hours wrapping at 24
ClockFace(minutes) == << (minutes \div 60) % 24, minutes % 60 >>

\* C16: in every response totalDuration is the final clock minus the start
\* time, which is totalDriveTime + totalServiceTime + the sum of the route's
\* waitTime values, and estimatedEndTime displays start time + totalDuration.
C16_TotalDurationAddsUp ==
  pc = "done" =>
    /\ N > 0 => response[1].totalDuration = currentTime - GivenStart
    /\ response[1].totalDuration =
         response[1].totalDriveTime + response[1].totalServiceTime + WaitSum
    /\ response[1].estimatedEndTime =
         ClockFace(GivenStart + response[1].totalDuration)

C16_Witness ==
  /\ Responded
  /\ N = 2
  /\ response[1].returnToHomeTime # None
  /\ response[1].returnToHomeTime[1] > 0
  /\ WaitSum > 0
  /\ response[1].totalDuration =
       response[1].totalDriveTime + response[1].totalServiceTime + WaitSum

(* ------------------------------------------- two stops twenty minutes apart *)
\* optimizeRoute called with a stop x whose window closes at 09:00 and a
\* high-priority stop y without a window, at 08:00; the provider has
\* answered 1200 s for both directions and the batch is about to be written
ScenarioOpens == { <<7, 0>>, <<8, 0>>, <<8, 30>>, <<8, 50>>, <<8, 55>> }
ScenarioDurations == { None, Some(15), Some(45) }
ScenarioX(open, dur) ==
  [id |-> "x", name |-> "x", lat |-> 0,
   timeWindow |-> Some([open |-> open, close |-> <<9, 0>>]),
   duration |-> dur, priority |-> "undefined"]
ScenarioY(dur) ==
  [id |-> "y", name |-> "y", lat |-> 1,
   timeWindow |-> None, duration |-> dur, priority |-> "high"]
ScenarioRequests ==
  { [stops |-> ss, startTime |-> st, startLocation |-> None,
     homeBase |-> None, returnHome |-> rh] :
      ss \in UNION { { << ScenarioX(o, dx), ScenarioY(dy) >>,
                       << ScenarioY(dy), ScenarioX(o, dx) >> } :
                     o \in ScenarioOpens, dx \in ScenarioDurations,
                     dy \in ScenarioDurations },
      st \in { None, Some(<<8, 0>>) },
      rh \in BOOLEAN }
TwentyMinutes == Some([durationInTraffic |-> 1200, distance |-> 15000])

InitScenarioB ==
  /\ ScoreIdle
  /\ HandlerIdle
  /\ pc = "await"
  /\ apiKey = TRUE
  /\ httpOk = TRUE
  /\ request \in ScenarioRequests
  /\ pairs = PairsOf(matrixStops(request))
  /\ i = 0
  /\ inflight = {}
  /\ issued = << 1, 2 >>
  /\ results = (1 :> TwentyMinutes) @@ (2 :> TwentyMinutes)
  /\ matrix = <<>>
  /\ unvisited = <<>>
  /\ route = <<>>
  /\ currentTime = 0
  /\ currentId = Null
  /\ totalDistance = 0
  /\ totalDriveTime = 0
  /\ totalServiceTime = 0
  /\ feasible = TRUE
  /\ warnings = <<>>
  /\ steps = <<>>
  /\ response = None

NextScenarioB ==
  \/ WriteBatch
  \/ BeginRoute
  \/ Iterate
  \/ Return

SpecScenarioB == InitScenarioB /\ [][NextScenarioB]_vars

\* C17: with x closing at 09:00 (default priority), y without a window and
\* priority high, 20 minutes between them both ways and start 08:00, x is
\* the first entry of optimizedRoute and y the second.
C17_XBeforeY ==
  Responded =>
    /\ response[1].optimizedRoute[1].id = "x"
    /\ response[1].optimizedRoute[2].id = "y"

(* ------------------------------------------------- POST /api/optimize *)
\* a JSON value found at body.stops[k]: null, or an object whose id and name
\* are absent, "" or a non-empty string and whose lat and lng are numbers or
\* not
NullItem ==
  [isNull |-> TRUE, id |-> None, name |-> None,
   latIsNumber |-> FALSE, lngIsNumber |-> FALSE]
ValidItem ==
  [isNull |-> FALSE, id |-> Some("a"), name |-> Some("n"),
   latIsNumber |-> TRUE, lngIsNumber |-> TRUE]
BodyItems ==
  { NullItem, ValidItem,
    [ValidItem EXCEPT !.id = None], [ValidItem EXCEPT !.id = Some("")],
    [ValidItem EXCEPT !.name = None], [ValidItem EXCEPT !.name = Some("")],
    [ValidItem EXCEPT !.latIsNumber = FALSE],
    [ValidItem EXCEPT !.lngIsNumber = FALSE] }
\* the parsed body: null, or an object whose stops member is absent, a
\* string or an array
Bodies ==
  { NoBody } \cup
  { [isNull |-> FALSE, stops |-> [tag |-> t, items |-> <<>>]] :
      t \in { "undefined", "string" } } \cup
  { [isNull |-> FALSE, stops |-> [tag |-> "array", items |-> items]] :
      items \in UNION { [1..n -> BodyItems] : n \in 0..MaxBodyStops } }

truthy(field) == field # None /\ field # Some("")

\* the for loop over body.stops: reading a member of null throws
RECURSIVE validateStops(_)
validateStops(items) ==
  IF items = <<>> THEN "ok"
  ELSE IF Head(items).isNull THEN "throws"
  ELSE IF \/ ~truthy(Head(items).id)
          \/ ~truthy(Head(items).name)
          \/ ~Head(items).latIsNumber
          \/ ~Head(items).lngIsNumber
       THEN "invalid"
  ELSE validateStops(Tail(items))

\* what the handler does with the parsed body before it awaits
validate(b) ==
  IF b.isNull THEN "throws"
  ELSE IF b.stops.tag # "array" \/ Len(b.stops.items) = 0 THEN "invalid"
  ELSE validateStops(b.stops.items)

badRequest == [status |-> 400, content |-> "error"]
\* the framework's answer to an exception that leaves the handler
internalError == [status |-> 500, content |-> "Internal Server Error"]
jsonResult == [status |-> 200, content |-> "result"]

optimizerVars ==
  << pc, envVars, request, buildVars, loopVars, response >>

Receive(b) ==
  /\ hpc = "idle"
  /\ body' = b
  /\ hpc' = "parsed"
  /\ UNCHANGED << reply, optimizeCalls, optimizerVars, scoreVars >>

Reject ==
  /\ hpc = "parsed"
  /\ validate(body) = "invalid"
  /\ reply' = Some(badRequest)
  /\ hpc' = "done"
  /\ UNCHANGED << body, optimizeCalls, optimizerVars, scoreVars >>

ValidationThrows ==
  /\ hpc = "parsed"
  /\ validate(body) = "throws"
  /\ reply' = Some(internalError)
  /\ hpc' = "done"
  /\ UNCHANGED << body, optimizeCalls, optimizerVars, scoreVars >>

CallOptimize ==
  /\ hpc = "parsed"
  /\ validate(body) = "ok"
  /\ optimizeCalls' = optimizeCalls + 1
  /\ hpc' = "optimizing"
  /\ UNCHANGED << body, reply, optimizerVars, scoreVars >>

OptimizeResolves ==
  /\ hpc = "optimizing"
  /\ reply' = Some(jsonResult)
  /\ hpc' = "done"
  /\ UNCHANGED << body, optimizeCalls, optimizerVars, scoreVars >>

\* optimizeRoute rejects when a provider call throws, which takes a key and
\* at least one pair of stops
OptimizeRejects ==
  /\ hpc = "optimizing"
  /\ apiKey
  /\ Len(body.stops.items) > 1
  /\ reply' = Some(internalError)
  /\ hpc' = "done"
  /\ UNCHANGED << body, optimizeCalls, optimizerVars, scoreVars >>

NextHandler ==
  \/ \E b \in Bodies : Receive(b)
  \/ Reject
  \/ ValidationThrows
  \/ CallOptimize
  \/ OptimizeResolves
  \/ OptimizeRejects

SpecHandler == Init /\ [][NextHandler]_vars

\* vocabulary of the handler claim
LacksField(item) ==
  \/ item.isNull
  \/ item.id = None \/ item.id = Some("")
  \/ item.name = None \/ item.name = Some("")
  \/ ~item.latIsNumber
  \/ ~item.lngIsNumber
MustBeRefused ==
  \/ body.isNull
  \/ body.stops.tag # "array"
  \/ body.stops.items = <<>>
  \/ \E k \in 1..Len(body.stops.items) : LacksField(body.stops.items[k])

\* C18: the handler answers 400 without calling optimizeRoute when the body
\* has no stops array, the array is empty or some stop lacks a non-empty id,
\* a non-empty name or a numeric lat and lng; otherwise it calls
\* optimizeRoute exactly once and returns its result.
C18_HandlerValidates ==
  hpc = "done" =>
    IF MustBeRefused
    THEN reply[1].status = 400 /\ optimizeCalls = 0
    ELSE reply = Some([status |-> 200, content |-> "result"])
         /\ optimizeCalls = 1

(* ------------------------------------------------ scoreCandidate on its own *)
ScorePriorities == { "high", "medium", "low", "undefined" }
ScoreTravelTimes == { 0, 10, 30, 45 }
ScoreClocks == { 360, 410, 480, 530, 1410 }
ScoreCalls ==
  { [stop |-> [MkStop(1, p) EXCEPT !.priority = q],
     travelTime |-> t, currentTime |-> c] :
      p \in StopProfiles, q \in ScorePriorities,
      t \in ScoreTravelTimes, c \in ScoreClocks }

\* one call of scoreCandidate(stop, travelTime, currentTime, remainingStops)
ScoreCall(call) ==
  /\ scoreIn' = call
  /\ scoreOut' = Some(scoreCandidate(call.stop, call.travelTime,
                                     call.currentTime))
  /\ UNCHANGED << optimizerVars, handlerVars >>

NextScore == \E call \in ScoreCalls : ScoreCall(call)

SpecScore == Init /\ [][NextScore]_vars

\* vocabulary of the scoring claims
ScoreArrival == scoreIn.currentTime + scoreIn.travelTime
ScoreWait ==
  IF HasWindow(scoreIn.stop) /\ ScoreArrival < OpenOf(scoreIn.stop)
  THEN OpenOf(scoreIn.stop) - ScoreArrival ELSE 0
PlainScore ==
  LevelOf(scoreIn.stop.priority) * 30 - scoreIn.travelTime - ScoreWait
Scored == scoreOut # None /\ ~scoreOut[1].inf

\* C19: the urgency bonus of 50 is applied exactly when the stop has a window
\* and the close is less than 60 minutes after the wait-adjusted arrival
\* (the later of current time + travel and the window open).
C19_BonusOnWaitAdjustedSlack ==
  Scored =>
    IF HasWindow(scoreIn.stop)
       /\ CloseOf(scoreIn.stop) - (ScoreArrival + ScoreWait) < 60
    THEN scoreOut[1].v = PlainScore + 50
    ELSE scoreOut[1].v = PlainScore

ScoreLate ==
  HasWindow(scoreIn.stop) /\ ScoreArrival > CloseOf(scoreIn.stop)
SamePriorityAside ==
  /\ scoreOut # None
  /\ scoreIn'.stop.priority # scoreIn.stop.priority
  /\ [scoreIn' EXCEPT !.stop.priority = scoreIn.stop.priority] = scoreIn

\* C20: the score is negative infinity exactly when the arrival (current
\* time + travel) is past the close of the stop's window, and finite
\* otherwise; between two calls that differ only in the stop's priority
\* the score differs by 30 per level (low 1, medium 2, high 3, none 2).
C20_InfeasibleOrPriorityStep ==
  /\ [](scoreOut # None => (scoreOut[1].inf <=> ScoreLate))
  /\ [][SamePriorityAside =>
          /\ scoreOut'[1].inf = scoreOut[1].inf
          /\ ~scoreOut[1].inf =>
               scoreOut'[1].v - scoreOut[1].v =
                 30 * (LevelOf(scoreIn'.stop.priority)
                       - LevelOf(scoreIn.stop.priority))]_vars

C20_Witness ==
  /\ scoreOut = Some([inf |-> FALSE, v |-> 130])
  /\ scoreIn.stop.priority = "high"
  /\ scoreIn.stop.timeWindow = Some([open |-> <<8, 0>>, close |-> <<9, 0>>])
  /\ scoreIn.travelTime = 10
  /\ scoreIn.currentTime = 480

\* vocabulary of the selection claims: the stops still unvisited in pass k
\* (as positions of the input list) and the score each of them gets there
IndexOf(id) == CHOOSE j \in 1..N : request.stops[j].id = id
RemainingAt(k) ==
  { j \in 1..N : \A m \in 1..(k - 1) : steps[m].id # request.stops[j].id }
TravelAt(k, j) ==
  IF steps[k].positionBefore = Null THEN 0
  ELSE LookupDuration(matrix, steps[k].positionBefore, request.stops[j].id)
LateAt(k, j) ==
  /\ HasWindow(request.stops[j])
  /\ steps[k].clockBefore + TravelAt(k, j) > CloseOf(request.stops[j])
ScoreAt(k, j) ==
  scoreCandidate(request.stops[j], TravelAt(k, j), steps[k].clockBefore)
ChosenAt(k) == IndexOf(steps[k].id)

\* C21: in every pass with a feasible unvisited stop, the scheduled stop has
\* the maximum score of the unvisited stops, the earliest in input order
\* among equals; a stop late at its computed arrival is scheduled only when
\* every unvisited stop is late, and then it is the earliest remaining one.
C21_GreedyPicksMaxScore ==
  \A k \in 1..Len(steps) :
    IF \E j \in RemainingAt(k) : ~LateAt(k, j)
    THEN /\ ~Late(k)
         /\ \A j \in RemainingAt(k) :
              /\ ~Greater(ScoreAt(k, j), ScoreAt(k, ChosenAt(k)))
              /\ j < ChosenAt(k) =>
                   Greater(ScoreAt(k, ChosenAt(k)), ScoreAt(k, j))
    ELSE \A j \in RemainingAt(k) : ChosenAt(k) <= j

\* a first pass in which both stops tie for the best score and a second pass
\* whose only remaining stop is taken
C21_Witness ==
  /\ Responded
  /\ N = 2
  /\ ScoreAt(1, 1) = ScoreAt(1, 2)
  /\ ~ScoreAt(1, 1).inf
  /\ ChosenAt(1) = 1
  /\ ChosenAt(2) = 2

ScoreAtStart(j) == scoreCandidate(request.stops[j], 0, StartMinutes)

\* C22: when the most urgent stop is neither priority high nor has a window
\* closing before start + 240, the first pass has no current position: the
\* first route entry has the maximum score computed with travel 0 at the
\* start time, the earliest in input order among equals, and its leg is 0.
C22_UnforcedFirstPick ==
  (Len(steps) > 0 /\ ~TrulyUrgent(MostUrgent)) =>
    /\ steps[1].positionBefore = Null
    /\ steps[1].clockBefore = StartMinutes
    /\ route[1].travelTimeFromPrevious = 0
    /\ \A j \in 1..N :
         /\ ~Greater(ScoreAtStart(j), ScoreAtStart(IndexOf(route[1].id)))
         /\ j < IndexOf(route[1].id) =>
              Greater(ScoreAtStart(IndexOf(route[1].id)), ScoreAtStart(j))

\* the second stop of the input wins the first pass without being forced
C22_Witness ==
  /\ Responded
  /\ N = 2
  /\ ~TrulyUrgent(MostUrgent)
  /\ route[1].id = request.stops[2].id
  /\ Greater(ScoreAtStart(2), ScoreAtStart(1))
  /\ << request.stops[2].id, request.stops[1].id >> \in DOMAIN matrix

\* vocabulary of the matrix claims: the nodes of the run and what the
\* estimator yields for an ordered pair of them
NodeIds == InputIds \cup (IF request.homeBase # None THEN { HomeId } ELSE {})
NodeOf(id) ==
  IF id = HomeId THEN HomeStop(request.homeBase)
  ELSE StopById(request.stops, id)
OrderedPairs == { p \in NodeIds \X NodeIds : p[1] # p[2] }
Estimated(from, to) ==
  IF apiKey /\ httpOk /\ ProviderHasRoute(from, to)
  THEN [duration |-> RoundDiv(ProviderRoute(from, to).duration, 60),
        distance |-> ProviderRoute(from, to).distanceMeters]
  ELSE [duration |-> estimateDistance(from, to), distance |-> 0]
IssuedSet == { issued[m] : m \in DOMAIN issued }
MatrixBuilt == pc \in { "loop", "done" } /\ N > 0

\* C23: whatever the completion order inside a batch, no estimator call is
\* issued twice, and once buildTravelMatrix has returned exactly one call
\* was issued per ordered pair of distinct nodes, the matrix has an entry
\* for each such pair and no other, and each entry holds the estimate of
\* its own pair.
C23_MatrixCoversEveryPair ==
  /\ Cardinality(IssuedSet) = Len(issued)
  /\ IssuedSet \subseteq 1..Len(pairs)
  /\ MatrixBuilt =>
       /\ IssuedSet = 1..Len(pairs)
       /\ \A p \in OrderedPairs :
            Cardinality({ k \in DOMAIN pairs :
                            << pairs[k].from.id, pairs[k].to.id >> = p }) = 1
       /\ Len(pairs) = Cardinality(OrderedPairs)
       /\ DOMAIN matrix = OrderedPairs
       /\ \A p \in OrderedPairs :
            matrix[p] = Estimated(NodeOf(p[1]), NodeOf(p[2]))

\* three nodes, six pairs in two batches, provider answers that differ
\* between the two directions of a pair
C23_Witness ==
  /\ MatrixBuilt
  /\ Cardinality(NodeIds) = 3
  /\ Len(issued) = 6
  /\ apiKey /\ httpOk
  /\ \E p \in OrderedPairs : matrix[p] # matrix[<< p[2], p[1] >>]

BatchOf(n) == (n - 1) \div 5
Written(n) == << pairs[n].from.id, pairs[n].to.id >> \in DOMAIN matrix

\* C24: at most 5 estimator calls are outstanding at any moment; calls are
\* started in the enumeration order of the pairs, in batches of 5 (the last
\* possibly smaller); every call of a batch earlier than the latest batch
\* started has completed and its cell is written.
C24_BatchesOfFive ==
  /\ Cardinality(inflight) <= 5
  /\ \A m \in DOMAIN issued : issued[m] = m
  /\ inflight \subseteq IssuedSet
  /\ Len(issued) = Len(pairs) \/ Len(issued) % 5 = 0
  /\ \A m \in DOMAIN issued :
       BatchOf(m) < BatchOf(Len(issued)) =>
         (m \notin inflight /\ Written(m))

\* the sixth pair, alone in the second batch, is outstanding while the five
\* cells of the first batch are written
C24_Witness ==
  /\ pc = "await"
  /\ Len(pairs) = 6
  /\ inflight = { 6 }
  /\ \A m \in 1..5 : Written(m)
  /\ ~Written(6)

LoopKeepsMatrix ==
  pc \in { "loop", "done" } =>
    /\ pc' \in { "loop", "done" }
    /\ matrix' = matrix
    /\ issued' = issued
    /\ pairs' = pairs
PairsListedOnce == pc # "idle" => pairs' = pairs

\* C25: the matrix is built once, before selection: while stops are being
\* selected no estimator call is outstanding or missing, the run never goes
\* back to building, and neither the main loop nor the return-home step
\* adds or changes a matrix entry (or issues a call).
C25_MatrixReadOnlyInLoop ==
  /\ [](MatrixBuilt => /\ inflight = {}
                       /\ Len(issued) = Len(pairs)
                       /\ DOMAIN matrix = OrderedPairs)
  /\ [][LoopKeepsMatrix]_vars
  /\ [][PairsListedOnce]_vars

C25_Witness ==
  /\ pc = "loop"
  /\ Len(steps) = 1
  /\ Len(pairs) = 6
  /\ inflight = {}
  /\ Cardinality(DOMAIN matrix) = 6

StatedDuration(stop) ==
  IF stop.duration = None THEN 30 ELSE stop.duration[1]

\* C26: for every route entry departure minus actual arrival is the stop's
\* stated duration, whatever its value, and 30 only when none is stated;
\* totalServiceTime is the sum of these durations.
C26_ServiceIsStatedDuration ==
  Responded =>
    /\ \A k \in 1..N :
         steps[k].departure - steps[k].actualArrival =
           StatedDuration(StepStop(k))
    /\ response[1].totalServiceTime =
         SumSeq([k \in 1..N |-> StatedDuration(StepStop(k))])

\* the HH:MM string shows this minute count modulo a day
Shows(hhmm, minutes) ==
  /\ hhmm[1] \in 0..23
  /\ hhmm[2] \in 0..59
  /\ hhmm[1] * 60 + hhmm[2] = minutes % 1440

\* C27: for a non-empty route arrivalTime, departureTime and estimatedEndTime
\* show the running clock modulo 1440, while totalDuration and the window
\* comparisons use the unwrapped clock; once the clock has passed 1440 every
\* remaining stop with a window is late.
C27_WrapOnlyForDisplay ==
  Responded =>
    /\ \A k \in 1..N :
         /\ Shows(route[k].arrivalTime, steps[k].actualArrival)
         /\ Shows(route[k].departureTime, steps[k].departure)
         /\ steps[k].stopFeasible <=>
              ~(HasWindow(StepStop(k))
                /\ steps[k].clockBefore + steps[k].travelTime
                     > CloseOf(StepStop(k)))
         /\ steps[k].clockBefore > 1440 =>
              \A j \in RemainingAt(k) :
                HasWindow(request.stops[j]) => LateAt(k, j)
    /\ Shows(response[1].estimatedEndTime, currentTime)
    /\ response[1].totalDuration = currentTime - GivenStart

\* a stop with a window is reached after midnight: late, shown as 00:MM
C27_Witness ==
  /\ Responded
  /\ N = 2
  /\ steps[2].clockBefore > 1440
  /\ HasWindow(StepStop(2))
  /\ ~steps[2].stopFeasible
  /\ route[2].arrivalTime[1] = 0
  /\ response[1].totalDuration > 30

WarningsOfResponse ==
  IF response[1].warnings = None THEN << >> ELSE response[1].warnings[1]
WarningsOfKind(kind) ==
  Cardinality({ w \in DOMAIN WarningsOfResponse :
                  WarningsOfResponse[w].kind = kind })
LateStops == { k \in 1..Len(steps) : Late(k) }

\* C28: in every response warnings is present exactly when feasible is
\* false; a pass records the "cannot reach" warning exactly when it records
\* the fallback warning, so there are two warnings per stop scheduled after
\* its close and none else.
C28_WarningsComeInPairs ==
  pc = "done" =>
    /\ response[1].warnings # None <=> ~response[1].feasible
    /\ response[1].warnings # None => Len(response[1].warnings[1]) > 0
    /\ Len(WarningsOfResponse) = 2 * Cardinality(LateStops)
    /\ WarningsOfKind("cannot reach") = Cardinality(LateStops)
    /\ WarningsOfKind("may not be reachable") = Cardinality(LateStops)
    /\ \A k \in 1..Len(steps) :
         /\ steps[k].fallback <=> ~steps[k].stopFeasible
         /\ steps[k].warned = (IF Late(k) THEN 2 ELSE 0)

C28_Witness ==
  /\ Responded
  /\ N = 2
  /\ Late(1)
  /\ Late(2)
  /\ Len(WarningsOfResponse) = 4
  /\ ~response[1].feasible

\* the run as a function of the stops, the start time and the estimates
\* between stops alone: no home node, no returnHome flag
StopMatrix ==
  [p \in { q \in InputIds \X InputIds : q[1] # q[2] } |->
     Estimated(NodeOf(p[1]), NodeOf(p[2]))]
RECURSIVE StopsOnlyPasses(_, _, _, _)
ThenStopsOnly(left, p, order) ==
  << p >> \o StopsOnlyPasses(RemoveId(left, p.bestId), p.bestId,
                             p.departure, order + 1)
StopsOnlyPasses(left, position, clock, order) ==
  IF left = << >> THEN << >>
  ELSE ThenStopsOnly(left,
                     LoopPass(left, request.stops, StopMatrix, position,
                              clock, order),
                     order)
StopsOnlyRun ==
  StopsOnlyPasses([k \in 1..N |-> request.stops[k].id],
                  forcedFirst(request.stops, StartMinutes),
                  StartMinutes, 1)
SameAsStopsOnly(run) ==
  /\ response[1].optimizedRoute = [k \in 1..N |-> run[k].entry]
  /\ response[1].feasible =
       (\A k \in 1..N : ~run[k].fallback /\ run[k].stopFeasible)
  /\ WarningsOfResponse =
       Flatten([k \in 1..N |-> run[k].newWarnings])
  /\ response[1].totalServiceTime =
       SumSeq([k \in 1..N |-> run[k].duration])

NoProviderResult(p) ==
  ~apiKey \/ ~httpOk \/ ~ProviderHasRoute(NodeOf(p[1]), NodeOf(p[2]))

\* C30: a pair for which the provider returned no result has distance 0 in
\* the matrix (its duration is the geometric estimate); when the provider
\* is unavailable for every pair, totalDistance of the response is 0, with
\* or without a return-home leg.
C30_NoProviderNoDistance ==
  MatrixBuilt =>
    /\ \A p \in DOMAIN matrix :
         NoProviderResult(p) =>
           /\ matrix[p].distance = 0
           /\ matrix[p].duration =
                estimateDistance(NodeOf(p[1]), NodeOf(p[2]))
    /\ (pc = "done" /\ \A p \in DOMAIN matrix : NoProviderResult(p)) =>
         response[1].totalDistance = 0

C30_Witness ==
  /\ Responded
  /\ ~apiKey
  /\ N = 2
  /\ response[1].returnToHomeTime # None
  /\ response[1].totalDriveTime > 0
  /\ response[1].totalDistance = 0

====
